---- MODULE Spec2Model ----
(***************************************************************************)
(* A verification model of fstrings.py: the cursor-tracking printer        *)
(* (Visitor.print / Visitor.write), the scoped capture                     *)
(* (Visitor.capture_write), the grouping decision (Visitor.auto_parens)    *)
(* and the percent-format rewrite (Visitor.make_fstring), driven by the    *)
(* depth-first walk of Visitor.visit over a parse tree.                    *)
(*                                                                         *)
(* Text is a sequence of one-character strings.  The walk is a small-step  *)
(* interpreter: ctl is the stack of pending steps of the handlers that are *)
(* in progress (the Python call stack), its head the step that runs next.  *)
(***************************************************************************)
EXTENDS Integers, Sequences, FiniteSets, TLC

VARIABLES
    tree,         \* the parse tree (ast.parse's result; make_fstring writes positions into it)
    ctl,          \* pending steps of the handlers in progress, innermost first
    status,       \* "running", "raising" (an exception propagates), "done", "aborted"
    output_line,  \* Visitor.output_line
    output_col,   \* Visitor.output_col
    first_line,   \* Visitor.first_line
    last_line,    \* Visitor.last_line (Inf: float('inf'))
    p_level,      \* Visitor.p_level
    precedence,   \* Visitor.precedence (a list used as a stack)
    write,        \* Visitor.write: 0 is the bound method, k > 0 is a_.append of capture k
    print,        \* Visitor.print: 0 is the bound method, k > 0 is the lambda of capture k
    bufs,         \* the lists a_ of the make_fstring frames in progress, outermost first
    stdout,       \* what sys.stdout has received
    emitted       \* every line fragment Visitor.write went through, in order

vars == <<tree, ctl, status, output_line, output_col, first_line, last_line,
          p_level, precedence, write, print, bufs, stdout, emitted>>

----------------------------------------------------------------------------
(* Bounds of the model *)

\* source positions range over lines 1..MaxLine and columns 0..MaxCol
MaxLine == 3
MaxCol == 3
\* a template is made of at most MaxPieces pieces
MaxPieces == 3
\* a tuple of arguments holds at most MaxArgs names
MaxArgs == 3
\* percent-format expressions nest at most MaxNest deep in an argument
MaxNest == 2

\* float('inf'): above every line number the model reaches
Inf == 1000000

----------------------------------------------------------------------------
(* Text helpers *)

NL == "\n"

RECURSIVE Rep(_, _)
\* ch * n, the empty text for n <= 0
Rep(ch, n) == IF n <= 0 THEN <<>> ELSE <<ch>> \o Rep(ch, n - 1)

RECURSIVE Join(_)
\* ''.join(parts)
Join(parts) == IF parts = <<>> THEN <<>> ELSE Head(parts) \o Join(Tail(parts))

RECURSIVE SplitLinesFrom(_, _)
\* s.splitlines(True), cur being the line collected so far; "\n" is the only
\* line boundary among the characters of the model
SplitLinesFrom(s, cur) ==
    IF s = <<>> THEN (IF cur = <<>> THEN <<>> ELSE <<cur>>)
    ELSE IF Head(s) = NL THEN <<Append(cur, NL)>> \o SplitLinesFrom(Tail(s), <<>>)
    ELSE SplitLinesFrom(Tail(s), Append(cur, Head(s)))

SplitLines(s) == SplitLinesFrom(s, <<>>)

EndsWithNL(line) == line # <<>> /\ line[Len(line)] = NL

----------------------------------------------------------------------------
(* The printer: Visitor.write and Visitor.print, as functions of the       *)
(* printer state p = [output_line, output_col, stdout, emitted, bufs]      *)

InWindow(ln, fl, ll) == fl <= ln /\ ln <= ll

\* WriteLine with the cursor kept only for the lines the window lets through
WriteLineInWindowOnly(p, line, fl, ll) ==
    IF InWindow(p.output_line, fl, ll)
    THEN [p EXCEPT !.stdout = @ \o line,
                   !.emitted = @ \o line,
                   !.output_line = IF EndsWithNL(line) THEN @ + 1 ELSE @,
                   !.output_col = IF EndsWithNL(line) THEN 0 ELSE @ + Len(line)]
    ELSE [p EXCEPT !.emitted = @ \o line]

\* WriteLine with the line number left alone at a newline
WriteLineKeepsLine(p, line, fl, ll) ==
    [p EXCEPT !.emitted = @ \o line,
              !.stdout = IF InWindow(p.output_line, fl, ll) THEN @ \o line ELSE @,
              !.output_col = IF EndsWithNL(line) THEN 0 ELSE @ + Len(line)]

\* one iteration of the loop of Visitor.write (lines 65-72)
WriteLine(p, line, fl, ll) ==
    LET q == [p EXCEPT !.emitted = @ \o line,
                       !.stdout = IF InWindow(p.output_line, fl, ll)
                                  THEN @ \o line ELSE @]
    IN IF EndsWithNL(line)
       THEN [q EXCEPT !.output_line = @ + 1, !.output_col = 0]
       ELSE [q EXCEPT !.output_col = @ + Len(line)]

RECURSIVE WriteLines(_, _, _, _)
WriteLines(p, lines, fl, ll) ==
    IF lines = <<>> THEN p
    ELSE WriteLines(WriteLine(p, Head(lines), fl, ll), Tail(lines), fl, ll)

\* Visitor.write, the bound method (lines 63-72)
RealWrite(p, s, fl, ll) == WriteLines(p, SplitLines(s), fl, ll)

\* self.write(s): the bound method, or a_.append of the capture w
CallWrite(p, w, s, fl, ll) ==
    IF w = 0 THEN RealWrite(p, s, fl, ll)
    ELSE [p EXCEPT !.bufs[w] = Append(@, s)]

\* Visitor.print with the spaces counted from the column before the newlines
PrintMethodStaleCol(p, w, s, l, c, fl, ll) ==
    CallWrite(
        IF p.output_col < c
        THEN CallWrite(IF p.output_line < l
                       THEN CallWrite(p, w, Rep(NL, l - p.output_line), fl, ll) ELSE p,
                       w, Rep(" ", c - p.output_col), fl, ll)
        ELSE IF p.output_line < l
        THEN CallWrite(p, w, Rep(NL, l - p.output_line), fl, ll) ELSE p,
        w, s, fl, ll)

\* Visitor.print that pads nothing for a target behind the cursor
PrintMethodNoPadBehind(p, w, s, l, c, fl, ll) ==
    IF l < p.output_line \/ (l = p.output_line /\ c < p.output_col)
    THEN CallWrite(p, w, s, fl, ll)
    ELSE CallWrite(
             IF p.output_line < l
             THEN CallWrite(CallWrite(p, w, Rep(NL, l - p.output_line), fl, ll),
                            w, Rep(" ", c), fl, ll)
             ELSE CallWrite(p, w, Rep(" ", c - p.output_col), fl, ll),
             w, s, fl, ll)

\* Visitor.print, the bound method (lines 56-61); self.write is looked up at
\* each call
PrintMethod(p, w, s, l, c, fl, ll) ==
    LET p1 == IF p.output_line < l
              THEN CallWrite(p, w, Rep(NL, l - p.output_line), fl, ll) ELSE p
        p2 == IF p1.output_col < c
              THEN CallWrite(p1, w, Rep(" ", c - p1.output_col), fl, ll) ELSE p1
    IN CallWrite(p2, w, s, fl, ll)

\* self.print(s, l, c): the bound method, or the lambda of capture_write
\* (line 364), which drops the position
CallPrint(p, w, pr, s, l, c, fl, ll) ==
    IF pr = 0 THEN PrintMethod(p, w, s, l, c, fl, ll)
    ELSE CallWrite(p, w, s, fl, ll)

----------------------------------------------------------------------------
(* The parse tree.  A node is a record                                     *)
(*   [kind, ops, text, lineno, col_offset, kids]                           *)
(* kind: the ast class; ops: its operator(s); text: Name.id, Str.s, or the *)
(* source text of a JoinedStr; kids: its child nodes in source order       *)
(* (BinOp: left, right; BoolOp: values; Compare: left, comparators;        *)
(* Tuple: elts; Module: body; Expr: value; JoinedStr: values).             *)

Node(k, o, t, l, c, ks) ==
    [kind |-> k, ops |-> o, text |-> t, lineno |-> l, col_offset |-> c, kids |-> ks]

Name(id, l, c) == Node("Name", <<>>, <<id>>, l, c, <<>>)
Str(s, l, c) == Node("Str", <<>>, s, l, c, <<>>)
Tuple(elts, l, c) == Node("Tuple", <<>>, <<>>, l, c, elts)
BinOp(left, op, right) ==
    Node("BinOp", <<op>>, <<>>, left.lineno, left.col_offset, <<left, right>>)
BoolOp(op, values) ==
    Node("BoolOp", <<op>>, <<>>, values[1].lineno, values[1].col_offset, values)
Compare(left, ops, comparators) ==
    Node("Compare", ops, <<>>, left.lineno, left.col_offset, <<left>> \o comparators)
FormattedValue(value) ==
    Node("FormattedValue", <<>>, <<>>, value.lineno, value.col_offset, <<value>>)
JoinedStr(src, values, l, c) == Node("JoinedStr", <<>>, src, l, c, values)
Expr(value) == Node("Expr", <<>>, <<>>, value.lineno, value.col_offset, <<value>>)
Module(body) == Node("Module", <<>>, <<>>, 0, 0, body)

RECURSIVE NodeAt(_, _)
\* the node a path of child indexes leads to
NodeAt(n, path) ==
    IF path = <<>> THEN n ELSE NodeAt(n.kids[Head(path)], Tail(path))

RECURSIVE SetPos(_, _, _, _)
\* the tree after  a.lineno = l; a.col_offset = c  on the node at path
SetPos(n, path, l, c) ==
    IF path = <<>> THEN [n EXCEPT !.lineno = l, !.col_offset = c]
    ELSE [n EXCEPT !.kids[Head(path)] = SetPos(@, Tail(path), l, c)]

----------------------------------------------------------------------------
(* PRECEDENCE and precedence(op) (lines 19-44) *)

PRECEDENCE ==
    << {"Lambda"}, {"IfExp"}, {"Or"}, {"And"}, {"Not"},
       {"In", "NotIn", "Is", "IsNot", "Lt", "LtE", "Gt", "GtE", "NotEq", "Eq"},
       {"BitOr"}, {"BitXor"}, {"BitAnd"}, {"LShift", "RShift"},
       {"Add", "Sub"}, {"Mult", "MatMult", "Div", "FloorDiv", "Mod"},
       {"UAdd", "USub", "Invert"}, {"Pow"}, {"Await"},
       {"Subscript", "Call", "Attribute"}, {"Tuple", "List", "Dict", "Set"} >>

\* the index i of range(len(PRECEDENCE)), which counts from 0
PrecedenceOf(op) == (CHOOSE i \in 1..Len(PRECEDENCE) : op \in PRECEDENCE[i]) - 1

----------------------------------------------------------------------------
(* The directive pattern of make_fstring (lines 380-386), matched as       *)
(* re.finditer matches it: each optional part greedy, given back in the    *)
(* engine's order when the rest cannot match.  Each operator answers the   *)
(* index of the character the type group matched, 0 when there is no match.*)

FlagChars == {"#", "0", " ", "+", "-"}
Digits == {"0", "1", "2", "3", "4", "5", "6", "7", "8", "9"}
LengthChars == {"h", "l", "L"}

Is(s, p, set) == p <= Len(s) /\ s[p] \in set

\* (?P<type>.)  -- "." matches any character but a newline
MatchType(s, p) == IF p <= Len(s) /\ s[p] # NL THEN p ELSE 0

\* the first alternative the engine tries, or the next when it does not match
OrElse(a, b) == IF a # 0 THEN a ELSE b

\* the least element of a set of indexes, 0 for the empty set
Least(set) == IF set = {} THEN 0 ELSE CHOOSE j \in set : \A k \in set : j <= k

\* (?P<length>[hlL])?
MatchLength(s, p) ==
    OrElse(IF Is(s, p, LengthChars) THEN MatchType(s, p + 1) ELSE 0, MatchType(s, p))

RECURSIVE Run(_, _, _)
\* how many characters of set follow one another from p on
Run(s, p, set) == IF Is(s, p, set) THEN 1 + Run(s, p + 1, set) ELSE 0

RECURSIVE PrecDigits(_, _, _)
\* \d+ of the precision, m digits first, then fewer
PrecDigits(s, p, m) ==
    IF m = 0 THEN 0 ELSE OrElse(MatchLength(s, p + m), PrecDigits(s, p, m - 1))

\* (?:\.(?P<prec>\*|\d+))?
MatchPrec(s, p) ==
    OrElse(IF Is(s, p, {"."})
           THEN IF Is(s, p + 1, {"*"}) THEN MatchLength(s, p + 2)
                ELSE PrecDigits(s, p + 1, Run(s, p + 1, Digits))
           ELSE 0,
           MatchLength(s, p))

RECURSIVE WidthDigits(_, _, _)
\* \d+ of the width, m digits first, then fewer
WidthDigits(s, p, m) ==
    IF m = 0 THEN 0 ELSE OrElse(MatchPrec(s, p + m), WidthDigits(s, p, m - 1))

\* (?P<width>\*|\d+)?
MatchWidth(s, p) ==
    OrElse(IF Is(s, p, {"*"}) THEN MatchPrec(s, p + 1)
           ELSE WidthDigits(s, p, Run(s, p, Digits)),
           MatchPrec(s, p))

RECURSIVE FlagRun(_, _, _)
\* (?P<flag>[#0 +-]*), n characters first, then fewer
FlagRun(s, p, n) ==
    OrElse(MatchWidth(s, p + n), IF n = 0 THEN 0 ELSE FlagRun(s, p, n - 1))

MatchFlag(s, p) == FlagRun(s, p, Run(s, p, FlagChars))

\* the first ")" after index p (0: none)
FirstClose(s, p) == Least({j \in (p + 1)..Len(s) : s[j] = ")"})

\* (?P<key>\([^)]*\))?
MatchKey(s, p) ==
    OrElse(IF Is(s, p, {"("}) /\ FirstClose(s, p) # 0
           THEN MatchFlag(s, FirstClose(s, p) + 1) ELSE 0,
           MatchFlag(s, p))

\* the whole pattern tried at index i
MatchAt(s, i) == IF Is(s, i, {"%"}) THEN MatchKey(s, i + 1) ELSE 0

\* the start of the next match at or after index i (0: none)
NextMatch(s, i) == Least({j \in i..Len(s) : MatchAt(s, j) # 0})

\* Visitor.escape_string_part (lines 356-358): repr('"' + s)[2:-1].  The text
\* holds a double quote, so repr quotes it with single quotes and escapes
\* the single quotes, backslashes and newlines in it.
EscapeChar(ch) ==
    IF ch = "'" THEN <<"\\", "'">>
    ELSE IF ch = "\\" THEN <<"\\", "\\">>
    ELSE IF ch = NL THEN <<"\\", "n">>
    ELSE <<ch>>

RECURSIVE escape_string_part(_)
escape_string_part(s) ==
    IF s = <<>> THEN <<>> ELSE EscapeChar(Head(s)) \o escape_string_part(Tail(s))

----------------------------------------------------------------------------
(* The scan of make_fstring (lines 372-403) *)

Lit(s) == [lit |-> TRUE, s |-> s, arg |-> 0, t |-> ""]
Arg(k, t) == [lit |-> FALSE, s |-> <<>>, arg |-> k, t |-> t]

\* the guard of lines 373-375
IsPercentFormat(node) ==
    /\ node.kind = "BinOp"
    /\ node.ops[1] = "Mod"
    /\ node.kids[1].kind = "Str"

\* lines 376-379: how many arguments, and the path of the k-th from the BinOp
NumArguments(node) ==
    IF node.kids[2].kind = "Tuple" THEN Len(node.kids[2].kids) ELSE 1

ArgumentPath(node, k) == IF node.kids[2].kind = "Tuple" THEN <<2, k>> ELSE <<2>>

RECURSIVE ScanFrom(_, _, _, _, _)

\* lines 394-400 for a match whose type group matched s[e], res holding the
\* text before the match already
ScanType(s, k, nargs, res, e) ==
    IF s[e] = "%"
    THEN ScanFrom(s, e + 1, k, nargs, Append(res, Lit(<<"%">>)))
    ELSE IF s[e] \in {"s", "r"}
    THEN IF k >= nargs
         THEN [outcome |-> "raise", res |-> res]
         ELSE ScanFrom(s, e + 1, k + 1, nargs, Append(res, Arg(k + 1, s[e])))
    ELSE [outcome |-> "none", res |-> res]

\* lines 390-393 for the match that starts at j, and lines 401-403 when
\* there is none (j = 0)
ScanMatch(s, i, k, nargs, res, j) ==
    IF j = 0
    THEN [outcome |-> IF k < nargs THEN "none" ELSE "ok",
          res |-> Append(res, Lit(SubSeq(s, i, Len(s))))]
    ELSE ScanType(s, k, nargs, Append(res, Lit(SubSeq(s, i, j - 1))), MatchAt(s, j))

\* the loop of lines 390-403 from index i of the template s on, k arguments
\* popped so far and res collected so far.  outcome: "ok" (res is complete),
\* "none" (return None) or "raise" (arguments.pop(0) on an empty list)
ScanFrom(s, i, k, nargs, res) == ScanMatch(s, i, k, nargs, res, NextMatch(s, i))

Scan(node) ==
    IF IsPercentFormat(node)
    THEN ScanFrom(node.kids[1].text, 1, 0, NumArguments(node), <<>>)
    ELSE [outcome |-> "none", res |-> <<>>]

----------------------------------------------------------------------------
(* Renderings of literals *)

\* what repr does to one character inside double quotes
EscapeCharDQ(ch) == IF ch = "'" THEN <<ch>> ELSE EscapeChar(ch)

RECURSIVE EscapeDQ(_)
EscapeDQ(s) == IF s = <<>> THEN <<>> ELSE EscapeCharDQ(Head(s)) \o EscapeDQ(Tail(s))

\* repr(node.s) of visit_Str: quoted with double quotes when the text holds a
\* single quote and no double quote, with single quotes otherwise
ReprStr(s) ==
    IF (\E i \in 1..Len(s) : s[i] = "'") /\ ~(\E i \in 1..Len(s) : s[i] = "\"")
    THEN <<"\"">> \o EscapeDQ(s) \o <<"\"">>
    ELSE <<"'">> \o escape_string_part(s) \o <<"'">>

\* repr of an ast node, object.__repr__: "<_ast.Str object at 0x7f...>".  The
\* address differs from run to run; the whole is one character of the model.
ObjectRepr == "<_ast object>"

ReprNode(n) == <<ObjectRepr>>

RECURSIVE ReprNodes(_)
ReprNodes(ns) ==
    IF ns = <<>> THEN <<>>
    ELSE IF Len(ns) = 1 THEN ReprNode(ns[1])
    ELSE ReprNode(ns[1]) \o <<",", " ">> \o ReprNodes(Tail(ns))

\* repr(node.values) of visit_JoinedStr: the repr of a list of nodes
ReprList(ns) == <<"[">> \o ReprNodes(ns) \o <<"]">>

\* the tables ops of visit_BinOp, visit_BoolOp and visit_Compare
BinOpSymbol(op) ==
    CASE op = "Mod" -> <<"%">> [] op = "Sub" -> <<"-">>
      [] op = "Add" -> <<"+">> [] op = "Mult" -> <<"*">>
      [] OTHER -> <<ObjectRepr>>

BoolOpSymbol(op) ==
    IF op = "And" THEN <<" ", "a", "n", "d", " ">> ELSE <<" ", "o", "r", " ">>

CompareSymbol(op) ==
    CASE op = "Lt" -> <<"<">> [] op = "Gt" -> <<">">>
      [] op = "LtE" -> <<"<", "=">> [] op = "GtE" -> <<">", "=">>
      [] op = "Eq" -> <<"=", "=">> [] op = "NotEq" -> <<"!", "=">>
      [] op = "In" -> <<" ", "i", "n", " ">> [] op = "Is" -> <<" ", "i", "s", " ">>
      [] op = "IsNot" -> <<" ", "i", "s", " ", "n", "o", "t", " ">>
      [] OTHER -> <<"?">>

----------------------------------------------------------------------------
(* Steps of the handlers in progress *)

IVisit(path) == [op |-> "visit", path |-> path]
IWrite(s) == [op |-> "write", s |-> s]
\* visit_BinOp after make_fstring returned None (line 302)
IGeneric(path) == [op |-> "binop_generic", path |-> path]
\* auto_parens after its yield (line 294), p its local
IParensExit(p) == [op |-> "parens_exit", p |-> p]
\* make_fstring at line 409 for the part (a, t), a the node at path
IFsArg(path, t) == [op |-> "fs_arg", path |-> path, t |-> t]
\* capture_write at its finally (line 367), with its locals
ICaptureExit(l, c, old_write, old_print) ==
    [op |-> "capture_exit", l |-> l, c |-> c,
     old_write |-> old_write, old_print |-> old_print]
\* make_fstring at line 416 for a part of type t
IFsEmit(t) == [op |-> "fs_emit", t |-> t]
\* main at line 512
IMainEnd == [op |-> "main_end"]

Top == Head(ctl)
Running == status = "running" /\ ctl # <<>>
AtVisit(kind) ==
    /\ Running
    /\ Top.op = "visit"
    /\ NodeAt(tree, Top.path).kind = kind
TopNode == NodeAt(tree, Top.path)

\* the printer state, and its assignment
P == [output_line |-> output_line, output_col |-> output_col,
      stdout |-> stdout, emitted |-> emitted, bufs |-> bufs]

SetP(q) ==
    /\ output_line' = q.output_line
    /\ output_col' = q.output_col
    /\ stdout' = q.stdout
    /\ emitted' = q.emitted
    /\ bufs' = q.bufs

\* self.write(s) and self.print(s, l, c) in the current state
DoWrite(q, s) == CallWrite(q, write, s, first_line, last_line)
DoPrint(q, s, l, c) == CallPrint(q, write, print, s, l, c, first_line, last_line)

----------------------------------------------------------------------------
(* auto_parens (lines 275-297) *)

\* (a, b) > (c, d) on tuples
TupleGreater(a, b, c, d) == a > c \/ (a = c /\ b > d)

\* the condition of lines 278-280
LayoutCondition(node, left, right) ==
    /\ left.lineno # right.lineno
    /\ p_level = 0
    /\ TupleGreater(node.lineno, node.col_offset, output_line, output_col)

\* the condition of line 285
PrecedenceCondition(op) == precedence[Len(precedence)] > PrecedenceOf(op)

Grouping(node, op, left, right) ==
    LayoutCondition(node, left, right) \/ PrecedenceCondition(op)

\* auto_parens up to its yield, then rest pushed: the body of the with
\* statement and the code after the yield
EnterParens(node, op, left, right, body) ==
    IF Grouping(node, op, left, right)
    THEN /\ SetP(DoWrite(P, <<"(">>))
         /\ precedence' = Append(precedence, -1)
         /\ p_level' = p_level + 1
         /\ ctl' = body \o <<IParensExit(TRUE)>> \o Tail(ctl)
    ELSE /\ SetP(P)
         /\ precedence' = Append(precedence, PrecedenceOf(op))
         /\ p_level' = p_level
         /\ ctl' = body \o <<IParensExit(FALSE)>> \o Tail(ctl)

\* auto_parens after its yield (lines 294-297)
ParensExit ==
    /\ Running
    /\ Top.op = "parens_exit"
    /\ IF Top.p
       THEN SetP(DoWrite(P, <<")">>)) /\ p_level' = p_level - 1
       ELSE SetP(P) /\ p_level' = p_level
    /\ precedence' = SubSeq(precedence, 1, Len(precedence) - 1)
    /\ ctl' = Tail(ctl)
    /\ UNCHANGED <<tree, status, first_line, last_line, write, print>>

----------------------------------------------------------------------------
(* The handlers *)

\* visit_Module (lines 95-97)
VisitModule ==
    /\ AtVisit("Module")
    /\ ctl' = [i \in 1..Len(TopNode.kids) |-> IVisit(Top.path \o <<i>>)] \o Tail(ctl)
    /\ UNCHANGED <<tree, status, output_line, output_col, first_line, last_line,
                   p_level, precedence, write, print, bufs, stdout, emitted>>

\* visit_Expr (lines 213-214)
VisitExpr ==
    /\ AtVisit("Expr")
    /\ ctl' = <<IVisit(Top.path \o <<1>>)>> \o Tail(ctl)
    /\ UNCHANGED <<tree, status, output_line, output_col, first_line, last_line,
                   p_level, precedence, write, print, bufs, stdout, emitted>>

\* visit_Name (lines 454-455)
VisitName ==
    /\ AtVisit("Name")
    /\ SetP(DoPrint(P, TopNode.text, TopNode.lineno, TopNode.col_offset))
    /\ ctl' = Tail(ctl)
    /\ UNCHANGED <<tree, status, first_line, last_line, p_level, precedence,
                   write, print>>

\* visit_Str (lines 463-464)
VisitStr ==
    /\ AtVisit("Str")
    /\ SetP(DoPrint(P, ReprStr(TopNode.text), TopNode.lineno, TopNode.col_offset))
    /\ ctl' = Tail(ctl)
    /\ UNCHANGED <<tree, status, first_line, last_line, p_level, precedence,
                   write, print>>

\* visit_JoinedStr (lines 466-467)
VisitJoinedStr ==
    /\ AtVisit("JoinedStr")
    /\ SetP(DoPrint(P, ReprList(TopNode.kids), TopNode.lineno, TopNode.col_offset))
    /\ ctl' = Tail(ctl)
    /\ UNCHANGED <<tree, status, first_line, last_line, p_level, precedence,
                   write, print>>

RECURSIVE CommaVisits(_, _, _)
\* the loop of lines 473-475 over elts[i..n]
CommaVisits(path, i, n) ==
    IF i > n THEN <<>>
    ELSE <<IWrite(<<",">>), IVisit(path \o <<i>>)>> \o CommaVisits(path, i + 1, n)

\* visit_Tuple (lines 469-480)
VisitTuple ==
    /\ AtVisit("Tuple")
    /\ LET n == Len(TopNode.kids)
       IN IF n > 0
          THEN /\ SetP(DoPrint(P, <<"(">>, TopNode.lineno, TopNode.col_offset - 1))
               /\ ctl' = <<IVisit(Top.path \o <<1>>)>>
                         \o CommaVisits(Top.path, 2, n)
                         \o (IF n = 1 THEN <<IWrite(<<",">>)>> ELSE <<>>)
                         \o <<IWrite(<<")">>)>> \o Tail(ctl)
          ELSE /\ SetP(DoPrint(P, <<"(", ")">>, TopNode.lineno, TopNode.col_offset))
               /\ ctl' = Tail(ctl)
    /\ UNCHANGED <<tree, status, first_line, last_line, p_level, precedence,
                   write, print>>

RECURSIVE BoolOpBody(_, _, _, _)
\* the loop of lines 345-348 over values[i..n]
BoolOpBody(path, sym, i, n) ==
    IF i > n THEN <<>>
    ELSE (IF i > 1 THEN <<IWrite(sym)>> ELSE <<>>)
         \o <<IVisit(path \o <<i>>)>> \o BoolOpBody(path, sym, i + 1, n)

\* visit_BoolOp (lines 339-348)
VisitBoolOp ==
    /\ AtVisit("BoolOp")
    /\ LET n == Len(TopNode.kids)
       IN EnterParens(TopNode, TopNode.ops[1], TopNode.kids[1], TopNode.kids[n],
                      BoolOpBody(Top.path, BoolOpSymbol(TopNode.ops[1]), 1, n))
    /\ UNCHANGED <<tree, status, first_line, last_line, write, print>>

RECURSIVE CompareBody(_, _, _, _)
\* the loop of lines 335-337 over the pairs i..n of zip(ops, comparators)
CompareBody(path, ops, i, n) ==
    IF i > n THEN <<>>
    ELSE <<IWrite(<<" ">> \o CompareSymbol(ops[i]) \o <<" ">>),
           IVisit(path \o <<i + 1>>)>> \o CompareBody(path, ops, i + 1, n)

\* visit_Compare (lines 322-337)
VisitCompare ==
    /\ AtVisit("Compare")
    /\ ctl' = <<IVisit(Top.path \o <<1>>)>>
              \o CompareBody(Top.path, TopNode.ops, 1, Len(TopNode.ops))
              \o Tail(ctl)
    /\ UNCHANGED <<tree, status, output_line, output_col, first_line, last_line,
                   p_level, precedence, write, print, bufs, stdout, emitted>>

\* a pending self.write(s) of a handler
WriteStep ==
    /\ Running
    /\ Top.op = "write"
    /\ SetP(DoWrite(P, Top.s))
    /\ ctl' = Tail(ctl)
    /\ UNCHANGED <<tree, status, first_line, last_line, p_level, precedence,
                   write, print>>

----------------------------------------------------------------------------
(* visit_BinOp and make_fstring *)

RECURSIVE PartSteps(_, _, _)
\* the loop of lines 405-419 over the parts res[i..]
PartSteps(path, node, res) ==
    IF res = <<>> THEN <<>>
    ELSE (IF Head(res).lit
          THEN <<IWrite(escape_string_part(Head(res).s))>>
          ELSE <<IFsArg(path \o ArgumentPath(node, Head(res).arg), Head(res).t)>>)
         \o PartSteps(path, node, Tail(res))

\* make_fstring after its scan ended with r (lines 400-404)
AfterScan(r) ==
    CASE r.outcome = "raise" ->
           /\ status' = "raising"
           /\ UNCHANGED <<tree, ctl, output_line, output_col, p_level,
                          precedence, write, print, bufs, stdout, emitted>>
      [] r.outcome = "none" ->
           /\ ctl' = <<IGeneric(Top.path)>> \o Tail(ctl)
           /\ UNCHANGED <<tree, status, output_line, output_col, p_level,
                          precedence, write, print, bufs, stdout, emitted>>
      [] r.outcome = "ok" ->
           /\ SetP(DoPrint(P, <<"f", "'">>, TopNode.lineno, TopNode.col_offset))
           /\ ctl' = PartSteps(Top.path, TopNode, r.res)
                     \o <<IWrite(<<"'">>)>> \o Tail(ctl)
           /\ UNCHANGED <<tree, status, p_level, precedence, write, print>>

\* visit_BinOp at its call of make_fstring (line 300), and make_fstring up to
\* its loop over the parts (lines 372-404)
MakeFstring ==
    /\ AtVisit("BinOp")
    /\ AfterScan(Scan(TopNode))
    /\ UNCHANGED <<first_line, last_line>>

\* visit_BinOp after make_fstring returned None (lines 302-311)
BinOpGeneric ==
    /\ Running
    /\ Top.op = "binop_generic"
    /\ LET node == NodeAt(tree, Top.path)
       IN EnterParens(node, node.ops[1], node.kids[1], node.kids[2],
                      << IVisit(Top.path \o <<1>>),
                         IWrite(<<" ">> \o BinOpSymbol(node.ops[1]) \o <<" ">>),
                         IVisit(Top.path \o <<2>>) >>)
    /\ UNCHANGED <<tree, status, first_line, last_line, write, print>>

\* make_fstring at an argument part (lines 409-414), and capture_write up to
\* its yield (lines 362-366)
FsArg ==
    /\ Running
    /\ Top.op = "fs_arg"
    /\ LET q == DoWrite(P, <<"{">>)
           k == Len(q.bufs) + 1
       IN /\ tree' = SetPos(tree, Top.path, q.output_line, q.output_col)
          /\ SetP([q EXCEPT !.bufs = Append(@, <<>>)])
          /\ write' = k
          /\ print' = k
          /\ ctl' = << IVisit(Top.path),
                       ICaptureExit(q.output_line, q.output_col, write, print),
                       IFsEmit(Top.t) >> \o Tail(ctl)
    /\ UNCHANGED <<status, first_line, last_line, p_level, precedence>>

\* the finally of capture_write (lines 367-370)
Restore(frame) ==
    /\ write' = frame.old_write
    /\ print' = frame.old_print
    /\ output_line' = frame.l
    /\ output_col' = frame.c

\* capture_write left by the end of the with body
CaptureExit ==
    /\ Running
    /\ Top.op = "capture_exit"
    /\ Restore(Top)
    /\ ctl' = Tail(ctl)
    /\ UNCHANGED <<tree, status, first_line, last_line, p_level, precedence,
                   bufs, stdout, emitted>>

\* make_fstring after the with statement (lines 416-419)
FsEmit ==
    /\ Running
    /\ Top.op = "fs_emit"
    /\ LET a_ == bufs[Len(bufs)]
           q0 == [P EXCEPT !.bufs = SubSeq(@, 1, Len(@) - 1)]
           q1 == DoWrite(q0, escape_string_part(Join(a_)))
           q2 == IF Top.t # "s" THEN DoWrite(q1, <<"!", Top.t>>) ELSE q1
       IN SetP(DoWrite(q2, <<"}">>))
    /\ ctl' = Tail(ctl)
    /\ UNCHANGED <<tree, status, first_line, last_line, p_level, precedence,
                   write, print>>

----------------------------------------------------------------------------
(* An exception on its way up: every frame in progress is left.  visit     *)
(* (lines 74-79) reports to stderr and raises again; auto_parens has no    *)
(* finally, so nothing of it runs; capture_write runs its finally.         *)

PropagateFrame ==
    /\ status = "raising"
    /\ ctl # <<>>
    /\ Top.op # "capture_exit"
    /\ ctl' = Tail(ctl)
    /\ bufs' = IF Top.op = "fs_emit" THEN SubSeq(bufs, 1, Len(bufs) - 1) ELSE bufs
    /\ UNCHANGED <<tree, status, output_line, output_col, first_line, last_line,
                   p_level, precedence, write, print, stdout, emitted>>

\* capture_write without its try/finally: an exception restores nothing
CaptureUnwindNoFinally ==
    /\ status = "raising"
    /\ ctl # <<>>
    /\ Top.op = "capture_exit"
    /\ ctl' = Tail(ctl)
    /\ UNCHANGED <<tree, status, output_line, output_col, first_line, last_line,
                   p_level, precedence, write, print, bufs, stdout, emitted>>

\* capture_write left by an exception
CaptureUnwind ==
    /\ status = "raising"
    /\ ctl # <<>>
    /\ Top.op = "capture_exit"
    /\ Restore(Top)
    /\ ctl' = Tail(ctl)
    /\ UNCHANGED <<tree, status, first_line, last_line, p_level, precedence,
                   bufs, stdout, emitted>>

\* main is left by the exception: the process ends
MainAbort ==
    /\ status = "raising"
    /\ ctl = <<>>
    /\ status' = "aborted"
    /\ UNCHANGED <<tree, ctl, output_line, output_col, first_line, last_line,
                   p_level, precedence, write, print, bufs, stdout, emitted>>

\* main after v.visit(o) (lines 512-513)
MainEnd ==
    /\ Running
    /\ Top.op = "main_end"
    /\ SetP(IF output_col > 0
            THEN RealWrite(P, <<NL>>, first_line, last_line) ELSE P)
    /\ status' = "done"
    /\ ctl' = Tail(ctl)
    /\ UNCHANGED <<tree, first_line, last_line, p_level, precedence, write, print>>

----------------------------------------------------------------------------
(* The programs the walk is run on: parse trees as ast.parse builds them   *)

Positions == (1..MaxLine) \X (0..MaxCol)

\* two statements, each a name, anywhere: every relation of a print target
\* to the cursor
PrinterPrograms ==
    { Module(<<Expr(Name("x", p[1], p[2])), Expr(Name("y", q[1], q[2]))>>) :
        p \in Positions, q \in Positions }

Pieces == { <<"a">>, <<"%", "%">>, <<"%", "s">>, <<"%", "r">>, <<"%", "d">> }

RECURSIVE TemplatesOf(_)
\* the templates of at most n pieces
TemplatesOf(n) ==
    IF n = 0 THEN { <<>> }
    ELSE LET shorter == TemplatesOf(n - 1)
         IN shorter \cup { s \o q : s \in shorter, q \in Pieces }

\* templates with the optional parts of a directive, with characters that
\* escape_string_part escapes, with braces, and with a "%" nothing follows
OtherTemplates ==
    { <<"%", "-", "2", "r">>, <<"%", "(", "k", ")", "s">>, <<"%", ".", "1", "s">>,
      <<"%", "l", "s">>, <<"%", "*", "d">>, <<"%", "(", "s">>,
      <<"'", "%", "s">>, <<"\\", "%", "r">>, <<"{", "%", "s", "}">>,
      <<"%">>, <<"%", "s", "%">>, <<"%", NL, "%", "s">> }

Templates == TemplatesOf(MaxPieces) \cup OtherTemplates

ArgNames == <<"x", "y", "z", "w", "v", "u">>

\* '<template>' % (x, y, ...)  on one line, from column 0: the tuple, if it
\* is not empty, is positioned at its first element
NameTuple(k, col) ==
    Tuple([i \in 1..k |-> Name(ArgNames[i], 1, col + 1 + 3 * (i - 1))],
          1, IF k = 0 THEN col ELSE col + 1)

FormatOf(tmpl, right) == BinOp(Str(tmpl, 1, 0), "Mod", right)

RightCol(tmpl) == Len(ReprStr(tmpl)) + 3

MatchingPrograms ==
    { Module(<<Expr(FormatOf(tmpl, NameTuple(k, RightCol(tmpl))))>>) :
        tmpl \in Templates, k \in 0..MaxArgs }
    \cup { Module(<<Expr(FormatOf(tmpl, Name("x", 1, RightCol(tmpl))))>>) :
             tmpl \in Templates }

RECURSIVE NestedFormat(_)
\* '%s' % ('%s' % ( ... y)), d deep
NestedFormat(d) ==
    IF d = 0 THEN Name("y", 1, 0)
    ELSE FormatOf(<<"%", "s">>, NestedFormat(d - 1))

\* arguments other than names: a string, whose rendering is escaped; a nested
\* format that is rewritten, one that is not, one that raises; an addition
\* over two lines
ArgNodes ==
    { Name("x", 1, 0), Str(<<"q">>, 1, 0),
      FormatOf(<<"%", "d">>, Name("y", 1, 0)),
      FormatOf(<<"%", "s", "%", "s">>, Name("y", 1, 0)),
      BinOp(Name("y", 1, 0), "Add", Name("z", 2, 0)) }
    \cup { NestedFormat(d) : d \in 1..MaxNest }

CapturePrograms ==
    { Module(<<Expr(FormatOf(<<"%", "s", "%", "r">>, Tuple(<<a, b>>, 1, 0)))>>) :
        a \in ArgNodes, b \in ArgNodes }
    \cup { Module(<<Expr(FormatOf(<<"a", "%", "r">>, a))>>) : a \in ArgNodes \ {Name("x", 1, 0)} }

\* the operators of the grouping programs, and an expression of each
GroupOps == {"Add", "Mult", "Mod", "And", "Or", "Lt"}

Build(op, left, right) ==
    IF op \in {"And", "Or"} THEN BoolOp(op, <<left, right>>)
    ELSE IF op = "Lt" THEN Compare(left, <<op>>, <<right>>)
    ELSE BinOp(left, op, right)

\* x op y op z, grouped to the left or to the right, over lines {1, 2}
GroupingPrograms ==
    LET X(l) == Name("x", l, 1)
        Y(l) == Name("y", l, 5)
        Z(l) == Name("z", l, 9)
        Lines == { ls \in {1, 2} \X {1, 2} \X {1, 2} : ls[1] <= ls[2] /\ ls[2] <= ls[3] }
    IN { Module(<<Expr(Build(o1, Build(o2, X(ls[1]), Y(ls[2])), Z(ls[3])))>>) :
           o1 \in GroupOps, o2 \in GroupOps, ls \in Lines }
       \cup { Module(<<Expr(Build(o1, X(ls[1]), Build(o2, Y(ls[2]), Z(ls[3]))))>>) :
                o1 \in GroupOps, o2 \in GroupOps, ls \in Lines }

\* f'{x}', f'a{x}' and f'a': code that is rewritten already
JoinedStrPrograms ==
    LET X == FormattedValue(Name("x", 1, 0))
        A == Str(<<"a">>, 1, 0)
    IN { Module(<<Expr(JoinedStr(src[1], src[2], p[1], p[2]))>>) :
           src \in { << <<"f", "'", "{", "x", "}", "'">>, <<X>> >>,
                     << <<"f", "'", "a", "{", "x", "}", "'">>, <<A, X>> >>,
                     << <<"f", "'", "a", "'">>, <<A>> >> },
           p \in Positions }

\* the output windows main sets from sys.argv (lines 501-509): none, or two
\* integers
Windows == { <<0, Inf>> } \cup ((1..MaxLine) \X (1..MaxLine))

Start(prog, win) ==
    /\ tree = prog
    /\ ctl = <<IVisit(<<>>), IMainEnd>>
    /\ status = "running"
    /\ output_line = 1
    /\ output_col = 0
    /\ first_line = win[1]
    /\ last_line = win[2]
    /\ p_level = 0
    /\ precedence = <<-1>>
    /\ write = 0
    /\ print = 0
    /\ bufs = <<>>
    /\ stdout = <<>>
    /\ emitted = <<>>

\* Visitor.__init__ (lines 48-54) and main up to its call of visit
Init ==
    \/ \E prog \in PrinterPrograms, win \in Windows : Start(prog, win)
    \/ \E prog \in MatchingPrograms \cup CapturePrograms \cup GroupingPrograms
                   \cup JoinedStrPrograms,
          win \in { <<0, Inf>>, <<2, 3>> } : Start(prog, win)

Next ==
    \/ VisitModule
    \/ VisitExpr
    \/ VisitName
    \/ VisitStr
    \/ VisitJoinedStr
    \/ VisitTuple
    \/ VisitBoolOp
    \/ VisitCompare
    \/ WriteStep
    \/ MakeFstring
    \/ BinOpGeneric
    \/ ParensExit
    \/ FsArg
    \/ CaptureExit
    \/ FsEmit
    \/ PropagateFrame
    \/ CaptureUnwind
    \/ MainAbort
    \/ MainEnd

Spec == Init /\ [][Next]_vars

----------------------------------------------------------------------------
(* What the properties are stated with *)

\* the position after the text s, counted from line 1, column 0
EndLine(s) == 1 + Cardinality({i \in 1..Len(s) : s[i] = NL})
EndCol(s) == Len(s) - Least({i \in 0..Len(s) : \A j \in (i + 1)..Len(s) : s[j] # NL})

RECURSIVE VisibleFrom(_, _, _, _, _)
\* the characters of s[i..] that lie on a line of [fl, ll], s[i] being on line ln
VisibleFrom(s, i, ln, fl, ll) ==
    IF i > Len(s) THEN <<>>
    ELSE (IF fl <= ln /\ ln <= ll THEN <<s[i]>> ELSE <<>>)
         \o VisibleFrom(s, i + 1, IF s[i] = NL THEN ln + 1 ELSE ln, fl, ll)

\* the next step calls self.print: visit_Name, visit_Str, visit_JoinedStr,
\* visit_Tuple, or make_fstring once its scan has succeeded
PrintsNext ==
    /\ Running
    /\ Top.op = "visit"
    /\ \/ TopNode.kind \in {"Name", "Str", "JoinedStr", "Tuple"}
       \/ TopNode.kind = "BinOp" /\ Scan(TopNode).outcome = "ok"

\* the text, line and column of that call
PrintText ==
    CASE TopNode.kind = "Name" -> TopNode.text
      [] TopNode.kind = "Str" -> ReprStr(TopNode.text)
      [] TopNode.kind = "JoinedStr" -> ReprList(TopNode.kids)
      [] TopNode.kind = "Tuple" -> IF TopNode.kids = <<>> THEN <<"(", ")">> ELSE <<"(">>
      [] TopNode.kind = "BinOp" -> <<"f", "'">>

PrintLine == TopNode.lineno

PrintCol ==
    IF TopNode.kind = "Tuple" /\ TopNode.kids # <<>>
    THEN TopNode.col_offset - 1 ELSE TopNode.col_offset

\* the target of the call is behind the cursor
TargetBehind == TupleGreater(output_line, output_col, PrintLine, PrintCol)

----------------------------------------------------------------------------
(* C6 *)

\* C6: whatever the output window, the cursor is the position after all the
\* text that went through write (so it is what it would be with the
\* unbounded window), and sys.stdout holds exactly the characters of that
\* text that lie on a line of [first_line, last_line].
C6_WindowHidesOnlyBytes ==
    /\ output_line = EndLine(emitted)
    /\ output_col = EndCol(emitted)
    /\ stdout = VisibleFrom(emitted, 1, 1, first_line, last_line)

\* a finished run of which the window let line 2 through and hid line 1
C6_Witness ==
    /\ status = "done"
    /\ first_line = 2
    /\ stdout # <<>>
    /\ Len(stdout) < Len(emitted)
    /\ emitted[1] # NL

----------------------------------------------------------------------------
(* C7 *)

\* C7: a call print(text, line, col) outside a capture, the cursor being at
\* (ol, oc), puts max(0, line - ol) newlines, then max(0, col - c') spaces
\* (c' = 0 after a newline, else oc), then text; and when the target is at or
\* ahead of the cursor, text starts at exactly (line, col).
C7_PrintPads ==
    [][ (PrintsNext /\ print = 0) =>
          LET newlines == Rep(NL, PrintLine - output_line)
              col1 == IF newlines # <<>> THEN 0 ELSE output_col
              before == emitted \o newlines \o Rep(" ", PrintCol - col1)
          IN /\ emitted' = before \o PrintText
             /\ ~TargetBehind =>
                  EndLine(before) = PrintLine /\ EndCol(before) = PrintCol ]_vars

\* x printed at line 2, column 2 from the start: one newline, two spaces
C7_Witness ==
    /\ emitted = <<NL, " ", " ", "x">>
    /\ output_line = 2
    /\ output_col = 3

----------------------------------------------------------------------------
(* C9 *)

\* C9 as claimed: a call of print whose target is behind the cursor, in
\* line or in column, writes the text alone, no newline and no space.
C9_NoPaddingBehind ==
    [][ (PrintsNext /\ print = 0 /\ TargetBehind) =>
          emitted' = emitted \o PrintText ]_vars

\* C9 amended: a call of print whose target is behind the cursor writes no
\* newline, and writes spaces only when the target column is ahead of the
\* cursor column (the target line then being behind the cursor line):
\* col - output_col of them, then the text.
C9_NoNewlineBehind ==
    [][ (PrintsNext /\ print = 0 /\ TargetBehind) =>
          emitted' = emitted \o Rep(" ", PrintCol - output_col) \o PrintText ]_vars

\* y printed for (1, 3) with the cursor at (2, 1): two spaces and no newline
C9_Witness ==
    /\ emitted = <<NL, "x", " ", " ", "y">>
    /\ output_line = 2
    /\ output_col = 4

----------------------------------------------------------------------------
(* C10 *)

\* C10: no step moves the cursor backwards: the line never decreases, and
\* the column decreases only when the line increases.
C10_CursorMonotonic ==
    [][ \/ output_line' > output_line
        \/ output_line' = output_line /\ output_col' >= output_col ]_vars

\* a run that went through a capture and through a newline
C10_Witness ==
    /\ status = "done"
    /\ output_line = 2
    /\ output_col = 0
    /\ \E i \in 1..Len(emitted) : emitted[i] = "}"

----------------------------------------------------------------------------
(* C8 *)

\* the captures in progress: the capture_write frames on the stack
OpenCaptures == Cardinality({i \in 1..Len(ctl) : ctl[i].op = "capture_exit"})

\* C8: however a capture is left, by the end of the nested render or by an
\* exception, write, print and the cursor are what they were when it was
\* entered; captures nest as a stack, so that write and print are always
\* those of the innermost capture in progress and the real ones when there
\* is none; and nothing reaches sys.stdout while a capture is in progress.
C8_CaptureRestores ==
    [][ /\ write' = OpenCaptures' /\ print' = OpenCaptures'
        /\ (ctl # <<>> /\ Top.op = "capture_exit") =>
             /\ write' = Top.old_write /\ print' = Top.old_print
             /\ output_line' = Top.l /\ output_col' = Top.c
             /\ output_line' = EndLine(emitted) /\ output_col' = EndCol(emitted)
        /\ write > 0 => stdout' = stdout /\ emitted' = emitted ]_vars

\* an exception raised while the second argument was rendered has left its
\* capture and main: the real write and print are back, and the cursor is
\* behind the "{" written before the capture
C8_Witness ==
    /\ status = "aborted"
    /\ write = 0
    /\ print = 0
    /\ emitted = <<"f", "'", "{", "x", "}", "{">>
    /\ output_line = 1
    /\ output_col = 6

----------------------------------------------------------------------------
(* C1 *)

RECURSIVE DirectiveTypes(_, _)
\* the type characters of the directives of the template s from index i on
DirectiveTypes(s, i) ==
    IF NextMatch(s, i) = 0 THEN <<>>
    ELSE <<s[MatchAt(s, NextMatch(s, i))]>>
         \o DirectiveTypes(s, MatchAt(s, NextMatch(s, i)) + 1)

\* M: how many directives of type s or r
DirectiveCount(s) ==
    Cardinality({i \in 1..Len(DirectiveTypes(s, 1)) : DirectiveTypes(s, 1)[i] \in {"s", "r"}})

HasUnsupported(s) ==
    \E i \in 1..Len(DirectiveTypes(s, 1)) : DirectiveTypes(s, 1)[i] \notin {"s", "r", "%"}

\* what an interpolated literal is made of: a character of literal text, or
\* a substitution with its expression and its conversion
LitItem(ch) == [is |-> "lit", text |-> <<ch>>, conv |-> <<>>]
SubItem(expr, conv) == [is |-> "sub", text |-> expr, conv |-> conv]
BadItem == [is |-> "bad", text |-> <<>>, conv |-> <<>>]

\* the substitution written between the braces as inner
SubOf(inner) ==
    IF Least({j \in 1..Len(inner) : inner[j] = "!"}) = 0 THEN SubItem(inner, <<>>)
    ELSE SubItem(SubSeq(inner, 1, Least({j \in 1..Len(inner) : inner[j] = "!"}) - 1),
                 SubSeq(inner, Least({j \in 1..Len(inner) : inner[j] = "!"}) + 1, Len(inner)))

RECURSIVE LiteralItems(_, _)
\* how Python reads the body b of f'...' from index i on: a backslash
\* escape, a doubled brace (a literal brace), a substitution, a character
LiteralItems(b, i) ==
    IF i > Len(b) THEN <<>>
    ELSE IF b[i] = "\\" /\ i < Len(b)
    THEN <<LitItem(IF b[i + 1] = "n" THEN NL ELSE b[i + 1])>> \o LiteralItems(b, i + 2)
    ELSE IF b[i] \in {"{", "}"} /\ i < Len(b) /\ b[i + 1] = b[i]
    THEN <<LitItem(b[i])>> \o LiteralItems(b, i + 2)
    ELSE IF b[i] = "{" /\ \E j \in (i + 1)..Len(b) : b[j] = "}"
    THEN <<SubOf(SubSeq(b, i + 1, Least({j \in (i + 1)..Len(b) : b[j] = "}"}) - 1))>>
         \o LiteralItems(b, Least({j \in (i + 1)..Len(b) : b[j] = "}"}) + 1)
    ELSE IF b[i] \in {"{", "}"} THEN <<BadItem>>
    ELSE <<LitItem(b[i])>> \o LiteralItems(b, i + 1)

RECURSIVE LitItems(_)
LitItems(s) == IF s = <<>> THEN <<>> ELSE <<LitItem(Head(s))>> \o LitItems(Tail(s))

RECURSIVE TemplateItems(_, _, _, _)
\* what the claim says the literal for the template s is made of, from index
\* i on, k arguments used so far: the literal text as it is, "%" for "%%",
\* and for the directive of type t the next argument, with conversion r for
\* t = "r" and none for t = "s"
TemplateItems(s, i, k, args) ==
    IF NextMatch(s, i) = 0 THEN LitItems(SubSeq(s, i, Len(s)))
    ELSE LitItems(SubSeq(s, i, NextMatch(s, i) - 1))
         \o (IF s[MatchAt(s, NextMatch(s, i))] = "%"
             THEN <<LitItem("%")>>
                  \o TemplateItems(s, MatchAt(s, NextMatch(s, i)) + 1, k, args)
             ELSE <<SubItem(args[k + 1].text,
                            IF s[MatchAt(s, NextMatch(s, i))] = "r" THEN <<"r">> ELSE <<>>)>>
                  \o TemplateItems(s, MatchAt(s, NextMatch(s, i)) + 1, k + 1, args))

\* the arguments of a percent-format node (lines 376-379)
Arguments(node) ==
    IF node.kids[2].kind = "Tuple" THEN node.kids[2].kids ELSE <<node.kids[2]>>

\* the program is one percent-format expression at line 1, column 0, whose
\* template has only directives of type s, r and %, as many of type s or r
\* as there are arguments, the arguments being names
C1_Applies ==
    /\ Len(tree.kids) = 1
    /\ IsPercentFormat(tree.kids[1].kids[1])
    /\ LET node == tree.kids[1].kids[1]
       IN /\ ~HasUnsupported(node.kids[1].text)
          /\ DirectiveCount(node.kids[1].text) = NumArguments(node)
          /\ \A i \in 1..NumArguments(node) : Arguments(node)[i].kind = "Name"

\* C1 as claimed: for a template with exactly N directives of type s or r
\* and exactly N arguments, the run ends well and has written one literal
\* f'...' that holds exactly the N substitutions, the i-th one the i-th
\* argument with !r exactly for an r directive, and between them the
\* literal text of the template.
C1_RewriteMatches ==
    (status \in {"done", "aborted"} /\ C1_Applies) =>
        /\ status = "done"
        /\ Len(emitted) >= 4
        /\ SubSeq(emitted, 1, 2) = <<"f", "'">>
        /\ SubSeq(emitted, Len(emitted) - 1, Len(emitted)) = <<"'", NL>>
        /\ LiteralItems(SubSeq(emitted, 3, Len(emitted) - 2), 1)
             = TemplateItems(tree.kids[1].kids[1].kids[1].text, 1, 0,
                             Arguments(tree.kids[1].kids[1]))

----------------------------------------------------------------------------
(* C2, C3 *)

\* make_fstring returns None from the node on top, having changed nothing,
\* and visit_BinOp goes on to its operator form
ReturnsNone ==
    /\ status' = "running"
    /\ ctl' = <<IGeneric(Top.path)>> \o Tail(ctl)
    /\ UNCHANGED <<tree, output_line, output_col, bufs, stdout, emitted>>

\* visit_BinOp prints left, " % ", right
PercentForm ==
    \E i \in 1..Len(ctl') :
        /\ SubSeq(ctl', 1, 3) = << IVisit(Top.path \o <<1>>),
                                   IWrite(<<" ", "%", " ">>),
                                   IVisit(Top.path \o <<2>>) >>
        /\ ctl'[4].op = "parens_exit"
        /\ SubSeq(ctl', 5, Len(ctl')) = Tail(ctl)

\* C2 as claimed: a percent-format on a template with M directives of type s
\* or r and K arguments, M # K, is not rewritten: make_fstring returns None,
\* raising nothing and writing nothing, and visit_BinOp prints the
\* expression in its percent-operator form.
C2_MismatchFallsBack ==
    [][ /\ ( /\ AtVisit("BinOp")
             /\ IsPercentFormat(TopNode)
             /\ DirectiveCount(TopNode.kids[1].text) # NumArguments(TopNode) )
           => ReturnsNone
        /\ ( /\ Running
             /\ Top.op = "binop_generic"
             /\ IsPercentFormat(NodeAt(tree, Top.path)) )
           => PercentForm ]_vars

\* C3 as claimed: a percent-format on a template with a directive of a type
\* other than s, r and %, wherever it stands, is not rewritten: make_fstring
\* returns None, having written nothing and left the cursor and the tree as
\* they were, and visit_BinOp prints the expression in its operator form.
C3_UnsupportedFallsBack ==
    [][ /\ ( /\ AtVisit("BinOp")
             /\ IsPercentFormat(TopNode)
             /\ HasUnsupported(TopNode.kids[1].text) )
           => ReturnsNone /\ UNCHANGED <<write, print, p_level, precedence>>
        /\ ( /\ Running
             /\ Top.op = "binop_generic"
             /\ IsPercentFormat(NodeAt(tree, Top.path))
             /\ HasUnsupported(NodeAt(tree, Top.path).kids[1].text) )
           => PercentForm ]_vars

----------------------------------------------------------------------------
(* C4 *)

\* the source text of a program that is one interpolated literal
JoinedStrSource(node) ==
    Rep(NL, node.lineno - 1) \o Rep(" ", node.col_offset) \o node.text \o <<NL>>

\* C4 as claimed: on code that is rewritten already, that is an interpolated
\* literal and no percent-format, the output is the input.
C4_Idempotent ==
    ( /\ status = "done"
      /\ Len(tree.kids) = 1
      /\ tree.kids[1].kids[1].kind = "JoinedStr" )
    => emitted = JoinedStrSource(tree.kids[1].kids[1])

----------------------------------------------------------------------------
(* C5 *)

\* the next step renders an arithmetic, logical or comparison expression
RendersOperators ==
    /\ Running
    /\ \/ Top.op = "binop_generic"
       \/ Top.op = "visit" /\ TopNode.kind \in {"BoolOp", "Compare"}

\* that step writes "(" and leaves ")" to be written after the operands
OpensParens ==
    /\ [output_line |-> output_line', output_col |-> output_col', stdout |-> stdout',
        emitted |-> emitted', bufs |-> bufs'] = DoWrite(P, <<"(">>)
    /\ \E i \in 1..Len(ctl') :
         /\ ctl'[i] = IParensExit(TRUE)
         /\ SubSeq(ctl', i + 1, Len(ctl')) = Tail(ctl)

\* C5 as claimed: an arithmetic, a logical and a comparison expression alike
\* is put in parentheses exactly when the layout condition or the
\* precedence condition holds of it, its operands being the first and the
\* last one.
C5_GroupingUniform ==
    [][ RendersOperators =>
          LET node == NodeAt(tree, Top.path)
          IN IF Grouping(node, node.ops[1], node.kids[1], node.kids[Len(node.kids)])
             THEN OpensParens
             ELSE /\ UNCHANGED <<output_line, output_col, stdout, emitted, bufs>>
                  /\ \A i \in 1..Len(ctl') : ctl'[i] # IParensExit(TRUE)
                       \/ i > Len(ctl') - Len(ctl) + 1 ]_vars

====
